---------------------------- MODULE Spec2Model ----------------------------
(***************************************************************************)
(* Model of the fleet maintenance optimizer (src/maintenance_optimizer.py):*)
(* MaintenanceOptimizer.calculate_priority_score, cluster_maintenance_needs*)
(* and optimize_schedule, applied by a caller to one vehicle DataFrame.    *)
(*                                                                         *)
(* Real numbers are kept exact.  Every priority_score of one collection is *)
(* a fraction over the common denominator priority_den = 10*max_faults*    *)
(* max_age, and every cost-matrix entry is a fraction over 10*priority_den;*)
(* the model stores the numerators.  A float NaN (0/0 in pandas) is kept   *)
(* as the flag nan of the value.  Rows, columns and list positions are     *)
(* 1-based here and 0-based in the Python code; where the code computes    *)
(* with an index (the slot penalty) the model uses the 0-based value.      *)
(***************************************************************************)
EXTENDS Integers, Sequences, FiniteSets, TLC

\* ------------------------------------------------------------------ bounds
\* Sizes of the exhaustively enumerated vehicle collections.
MaxVehicles == 3
MaxFaults == 2
MaxDays == 1
MaxCritical == 1
\* Largest value of the mechanics_per_slot argument that is tried.
MaxMechanics == 2
\* Sizes of the sample fleets of the second specification: every size up to
\* MaxSample, and MaxFleet.
MaxSample == 6
MaxFleet == 13
\* Most runs of the pipeline on one vehicle collection.
MaxPasses == 2

\* Most messages stamped in one run of the conversation memory.
MaxMessages == 12

\* Largest amount by which one attribute of one vehicle is raised.
MaxRaise == 2

\* KMeans(n_clusters=3, ...)
NClusters == 3

\* ConversationMemory.max_history_length
max_history_length == 10

\* ----------------------------------------------------------------- helpers
Min(a, b) == IF a <= b THEN a ELSE b

RECURSIVE SeqMax(_)
\* pandas Series.max() of a column of non-negative integers (0 stands for the
\* NaN that max() of an empty column gives; nothing is divided by it then).
SeqMax(s) ==
  IF s = <<>> THEN 0
  ELSE LET m == SeqMax(Tail(s)) IN IF Head(s) >= m THEN Head(s) ELSE m

Column(data, name) == [i \in 1..Len(data) |-> data[i][name]]

IsConstant(s) == \A i, j \in 1..Len(s) : s[i] = s[j]

\* ------------------------------------------------------------------- state
VARIABLES
  vehicle_data,        \* the raw columns of the DataFrame, one record per row
  columns,             \* the derived columns the DataFrame carries
  priority_score,      \* column priority_score: [nan, num] per row
  priority_den,        \* common denominator of the priority numerators
  maintenance_cluster, \* column maintenance_cluster: a label per row
  available_slots,     \* arguments of the last optimize_schedule call
  mechanics_per_slot,
  cost_matrix,         \* cost_matrix of the last optimize_schedule call
  row_ind, col_ind,    \* what linear_sum_assignment returned
  schedule,            \* the rows of the DataFrame it returned
  returned,            \* whether optimize_schedule has returned a schedule
  raised,              \* the uncaught exception that ended the run, if any
  calls,               \* how often the caller has called each operation
  passes,              \* how often the caller runs the pipeline on the data
  current_conversation, \* ConversationMemory.current_conversation
  clock,               \* datetime.now(): the messages stamped so far
  storage,             \* the messages of the file _save_conversation wrote last
  response             \* what the last get_response returned

optimizer_vars == <<vehicle_data, columns, priority_score, priority_den,
                    maintenance_cluster, available_slots, mechanics_per_slot,
                    cost_matrix, row_ind, col_ind, schedule, returned, raised,
                    calls, passes>>

memory_vars == <<current_conversation, clock, storage, response>>

vars == <<vehicle_data, columns, priority_score, priority_den,
          maintenance_cluster, available_slots, mechanics_per_slot,
          cost_matrix, row_ind, col_ind, schedule, returned, raised,
          calls, passes, current_conversation, clock, storage, response>>

Vehicle(f, d, c) ==
  [total_faults |-> f, days_since_last_maintenance |-> d,
   critical_system_faults |-> c]

\* The rows generate_sample_data can draw, within the bounds.
VehicleRows ==
  {Vehicle(f, d, c) : f \in 0..MaxFaults, d \in 0..MaxDays, c \in 0..MaxCritical}

SmallFleets == UNION {[1..n -> VehicleRows] : n \in 0..MaxVehicles}

\* Sample fleets of n vehicles: fault counts that are all different (r = 0)
\* or repeat (r > 0), ages and critical faults that cycle through 0..2.
SampleFleet(n, r) ==
  [i \in 1..n |->
     Vehicle((i * (r + 1) + r) % n, (i + r) % 3, ((i \div 2) + r) % 3)]

\* Three vehicles whose scores are 0.9, 0.5 and 0.1.
ScenarioFleet == <<Vehicle(0, 3, 2), Vehicle(1, 1, 0), Vehicle(0, 1, 0)>>

\* Every collection too small to cluster: fewer than NClusters vehicles.
FewVehicles == UNION {[1..n -> VehicleRows] : n \in 0..(NClusters - 1)}

\* Four vehicles of which the first two have the same attributes, and so
\* the same score.
TiedFleet ==
  <<Vehicle(2, 1, 1), Vehicle(2, 1, 1), Vehicle(0, 0, 0), Vehicle(1, 2, 2)>>

\* The sample fleets a pipeline is run on more than once.
RerunFleets ==
  {ScenarioFleet, TiedFleet}
     \cup {SampleFleet(n, r) : n \in NClusters..MaxSample, r \in 0..2}

SampleFleets ==
  {ScenarioFleet} \cup {SampleFleet(n, r) : n \in (NClusters..MaxSample) \cup {MaxFleet}, r \in 0..2}


\* The slot list main() builds: two slots a day, at 9 and at 14 o'clock, as
\* hours counted from the start date's midnight; the first n of them.
MainSlots(n) ==
  [k \in 1..n |-> 24 * ((k - 1) \div 2) + (IF (k - 1) % 2 = 0 THEN 9 ELSE 14)]

\* No method catches an exception and neither does a caller (main, the
\* dashboard): the first one raised ends the run.
NoException == [op |-> "none", exc |-> "none"]

\* The caller (main, lines 132-147) calls each operation once per run of the
\* pipeline.
Operations ==
  {"calculate_priority_score", "cluster_maintenance_needs", "optimize_schedule"}

Called(op) ==
  /\ calls[op] < passes
  /\ calls' = [calls EXCEPT ![op] = @ + 1]
  /\ UNCHANGED passes
  /\ UNCHANGED memory_vars

\* ------------------------------------------------ calculate_priority_score
NaN == [nan |-> TRUE, num |-> 0]

\* (max - value) / max of a column: the ratio turned round.
MaxNormInverted(value, col) ==
  [nan |-> SeqMax(col) = 0, num |-> SeqMax(col) - value, den |-> SeqMax(col)]

\* value / max of a column: 0/0 is NaN (a value never exceeds the maximum, so
\* nothing positive is divided by 0).
MaxNorm(value, col) ==
  [nan |-> SeqMax(col) = 0, num |-> value, den |-> SeqMax(col)]

\* Denominator of 0.4 * nf + 0.3 * na + 0.3 * c for the two quotients' denominators.
ScoreDen(fden, aden) == IF fden = 0 \/ aden = 0 THEN 1 ELSE 10 * fden * aden

\* 0.4 * nf + 0.3 * na + 0.3 * c over ScoreDen: NaN as soon as one term is.
WeightedScore(nf, na, c) ==
  IF nf.nan \/ na.nan THEN NaN
  ELSE [nan |-> FALSE,
        num |-> 4 * nf.num * na.den + 3 * na.num * nf.den + 3 * c * nf.den * na.den]

\* The score added to the priority_score the data already carries.
PriorityColumnAccumulated(data) ==
  LET faults == Column(data, "total_faults")
      age == Column(data, "days_since_last_maintenance")
  IN [i \in 1..Len(data) |->
        LET score == WeightedScore(MaxNorm(faults[i], faults),
                                   MaxNorm(age[i], age),
                                   data[i].critical_system_faults)
        IN IF "priority_score" \in columns /\ ~score.nan
           THEN [nan |-> FALSE, num |-> priority_score[i].num + score.num]
           ELSE score]

PriorityColumn(data) ==
  LET faults == Column(data, "total_faults")
      age == Column(data, "days_since_last_maintenance")
  IN [i \in 1..Len(data) |->
        WeightedScore(MaxNorm(faults[i], faults), MaxNorm(age[i], age),
                      data[i].critical_system_faults)]

PriorityDen(data) ==
  ScoreDen(MaxNorm(0, Column(data, "total_faults")).den,
           MaxNorm(0, Column(data, "days_since_last_maintenance")).den)

CalculatePriorityScore ==
  /\ raised = NoException
  /\ Called("calculate_priority_score")
  /\ priority_score' = PriorityColumn(vehicle_data)
  /\ priority_den' = PriorityDen(vehicle_data)
  /\ columns' = columns \cup {"priority_score"}
  /\ UNCHANGED <<vehicle_data, maintenance_cluster, available_slots,
                 mechanics_per_slot, cost_matrix, row_ind, col_ind, schedule,
                 returned, raised>>

\* ----------------------------------------------- cluster_maintenance_needs
\* (features - mean) / std has a NaN where a column's std is 0 (a constant
\* column of integers: its mean is exact) or the column itself is NaN.
FeaturesHaveNaN ==
  \/ IsConstant(Column(vehicle_data, "total_faults"))
  \/ IsConstant(Column(vehicle_data, "days_since_last_maintenance"))
  \/ IsConstant(Column(vehicle_data, "critical_system_faults"))
  \/ \E i \in 1..Len(priority_score) : priority_score[i].nan

\* Equal priority scores are floats whose mean need not be one of them: the
\* std of that column is 0 or a rounding residue, and the model decides
\* neither.
PriorityStdMayBeZero == IsConstant(priority_score)

\* The label vectors tried for KMeans.fit_predict on n rows.  Its seeded
\* k-means++ initialisation is the library's and is not computed here: the
\* labels are a choice among NClusters sample labellings by 0..k-1.
Labelings(n) ==
  {[i \in 1..n |-> (i + r) % NClusters] : r \in 0..(NClusters - 1)}

\* KMeans.fit refuses fewer samples than clusters ("n_samples should be >=
\* n_clusters"); the variant fits as many clusters as there are samples.
SamplesFewerThanClustersIgnored(n) == FALSE

SamplesFewerThanClusters(n) == n < NClusters

\* The fit with no seed: any labelling, whatever an earlier fit returned.
FitPredictUnseeded(n) == Labelings(n)

\* KMeans(random_state=42).fit_predict: every fit starts from the same seed,
\* so a second fit of the same features returns the labels of the first.
FitPredict(n) ==
  IF "maintenance_cluster" \in columns THEN {maintenance_cluster}
  ELSE Labelings(n)

ClusterMaintenanceNeeds ==
  /\ raised = NoException
  /\ Called("cluster_maintenance_needs")
  /\ \/ /\ "priority_score" \notin columns
        /\ raised' = [op |-> "cluster_maintenance_needs", exc |-> "KeyError"]
        /\ UNCHANGED <<columns, maintenance_cluster>>
     \/ /\ "priority_score" \in columns
        /\ \/ SamplesFewerThanClusters(Len(vehicle_data))
           \/ FeaturesHaveNaN
           \* the same floats give the same std: a fit that went through
           \* before goes through again
           \/ PriorityStdMayBeZero /\ "maintenance_cluster" \notin columns
        /\ raised' = [op |-> "cluster_maintenance_needs", exc |-> "ValueError"]
        /\ UNCHANGED <<columns, maintenance_cluster>>
     \/ /\ "priority_score" \in columns
        /\ ~SamplesFewerThanClusters(Len(vehicle_data))
        /\ ~FeaturesHaveNaN
        /\ \E labels \in FitPredict(Len(vehicle_data)) :
             maintenance_cluster' = labels
        /\ columns' = columns \cup {"maintenance_cluster"}
        /\ UNCHANGED raised
  /\ UNCHANGED <<vehicle_data, priority_score, priority_den, available_slots,
                 mechanics_per_slot, cost_matrix, row_ind, col_ind, schedule,
                 returned>>

\* ------------------------------------------------- linear_sum_assignment
\* scipy.optimize.linear_sum_assignment: the shortest-augmenting-path solver
\* of the rectangular assignment problem.  C is an nr x nc matrix of integers
\* with nr <= nc; 0 stands for the solver's -1 ("no row", "no column").

RECURSIVE Zeros(_)
\* std::vector<...>(n, 0)
Zeros(n) == IF n = 0 THEN <<>> ELSE Append(Zeros(n - 1), 0)

RECURSIVE Descending(_)
\* remaining[it] = nc - it - 1: the columns from the last to the first.
Descending(n) == IF n = 0 THEN <<>> ELSE <<n>> \o Descending(n - 1)

\* One pass over the remaining columns from row i: relax each column's
\* shortest path cost and pick the lowest, preferring on a tie a column
\* that has no row yet.  acc = [path, spc, seen, lowest, index]; seen holds
\* the columns whose shortest path cost is no longer INFINITY.
RECURSIVE ScanRemaining(_, _, _, _, _, _, _, _, _)
ScanRemaining(C, u, v, row4col, i, minVal, remaining, it, acc) ==
  IF it > Len(remaining) THEN acc
  ELSE
    LET j == remaining[it]
        r == minVal + C[i][j] - u[i] - v[j]
        better == j \notin acc.seen \/ r < acc.spc[j]
        path1 == IF better THEN [acc.path EXCEPT ![j] = i] ELSE acc.path
        spc1 == IF better THEN [acc.spc EXCEPT ![j] = r] ELSE acc.spc
        pick == \/ acc.index = 0
                \/ spc1[j] < acc.lowest
                \/ (spc1[j] = acc.lowest /\ row4col[j] = 0)
    IN ScanRemaining(C, u, v, row4col, i, minVal, remaining, it + 1,
         [path |-> path1, spc |-> spc1, seen |-> acc.seen \cup {j},
          lowest |-> IF pick THEN spc1[j] ELSE acc.lowest,
          index |-> IF pick THEN it ELSE acc.index])

\* remaining[index] = remaining[--num_remaining]
DropRemaining(remaining, index) ==
  SubSeq([remaining EXCEPT ![index] = remaining[Len(remaining)]],
         1, Len(remaining) - 1)

\* What one pass of the while (sink == -1) loop leaves, given the scan acc
\* of that pass.  st = [path, spc, seen, SR, SC, remaining, minVal, i, sink].
AfterScan(row4col, st, acc) ==
  [path |-> acc.path, spc |-> acc.spc, seen |-> acc.seen,
   SR |-> st.SR \cup {st.i}, SC |-> st.SC \cup {st.remaining[acc.index]},
   remaining |-> DropRemaining(st.remaining, acc.index),
   minVal |-> acc.lowest, i |-> row4col[st.remaining[acc.index]],
   sink |-> st.remaining[acc.index]]

ScanFrom(C, u, v, row4col, st) ==
  ScanRemaining(C, u, v, row4col, st.i, st.minVal, st.remaining, 1,
    [path |-> st.path, spc |-> st.spc, seen |-> st.seen,
     lowest |-> 0, index |-> 0])

\* The while (sink == -1) loop of augmenting_path: it ends at the first
\* picked column that has no row.
RECURSIVE FindSink(_, _, _, _, _)
FindSink(C, u, v, row4col, st) ==
  IF st.sink # 0 /\ row4col[st.sink] = 0 THEN st
  ELSE FindSink(C, u, v, row4col,
                AfterScan(row4col, st, ScanFrom(C, u, v, row4col, st)))

AugmentingPath(C, nc, u, v, path, row4col, curRow) ==
  FindSink(C, u, v, row4col,
    [path |-> path, spc |-> Zeros(nc), seen |-> {},
     SR |-> {}, SC |-> {}, remaining |-> Descending(nc),
     minVal |-> 0, i |-> curRow, sink |-> 0])

\* "augment previous solution": walk the path back from the sink.
RECURSIVE Augment(_, _, _, _, _)
Augment(path, row4col, col4row, j, curRow) ==
  IF path[j] = curRow
  THEN [row4col |-> [row4col EXCEPT ![j] = path[j]],
        col4row |-> [col4row EXCEPT ![path[j]] = j]]
  ELSE Augment(path, [row4col EXCEPT ![j] = path[j]],
               [col4row EXCEPT ![path[j]] = j], col4row[path[j]], curRow)

RECURSIVE UpdateRowDuals(_, _, _, _, _)
\* u[curRow] += minVal; u[i] += minVal - shortestPathCosts[col4row[i]] for
\* the other rows of SR.
UpdateRowDuals(u, col4row, curRow, f, i) ==
  IF i > Len(u) THEN u
  ELSE UpdateRowDuals(
         [u EXCEPT ![i] =
            IF i = curRow THEN u[i] + f.minVal
            ELSE IF i \in f.SR THEN u[i] + f.minVal - f.spc[col4row[i]]
            ELSE u[i]],
         col4row, curRow, f, i + 1)

RECURSIVE UpdateColumnDuals(_, _, _)
\* v[j] -= minVal - shortestPathCosts[j] for the columns of SC.
UpdateColumnDuals(v, f, j) ==
  IF j > Len(v) THEN v
  ELSE UpdateColumnDuals(
         [v EXCEPT ![j] =
            IF j \in f.SC THEN v[j] - (f.minVal - f.spc[j]) ELSE v[j]],
         f, j + 1)

\* "update dual variables" and the augmentation, given the search result f.
\* s = [u, v, path, row4col, col4row].
UpdateAndAugment(s, curRow, f) ==
  [u |-> UpdateRowDuals(s.u, s.col4row, curRow, f, 1),
   v |-> UpdateColumnDuals(s.v, f, 1),
   path |-> f.path,
   match |-> Augment(f.path, s.row4col, s.col4row, f.sink, curRow)]

Rematched(d) ==
  [u |-> d.u, v |-> d.v, path |-> d.path,
   row4col |-> d.match.row4col, col4row |-> d.match.col4row]

\* One iteration of "for curRow".
SolveRow(C, nc, s, curRow) ==
  Rematched(UpdateAndAugment(s, curRow,
              AugmentingPath(C, nc, s.u, s.v, s.path, s.row4col, curRow)))

\* "for curRow": col4row has one entry per row of C.
RECURSIVE SolveRows(_, _, _, _)
SolveRows(C, nc, s, curRow) ==
  IF curRow > Len(s.col4row) THEN s
  ELSE SolveRows(C, nc, SolveRow(C, nc, s, curRow), curRow + 1)

Solve(C, nr, nc) ==
  SolveRows(C, nc,
    [u |-> Zeros(nr), v |-> Zeros(nc), path |-> Zeros(nc),
     row4col |-> Zeros(nc), col4row |-> Zeros(nr)], 1)

RECURSIVE Ascending(_, _, _)
\* The members of the set S of integers from lo to hi, in ascending order.
Ascending(S, lo, hi) ==
  IF lo > hi THEN <<>>
  ELSE (IF lo \in S THEN <<lo>> ELSE <<>>) \o Ascending(S, lo + 1, hi)

Transposed(cost, nr, nc) == [j \in 1..nc |-> [i \in 1..nr |-> cost[i][j]]]

\* The result of a transposed solve, turned back and sorted by row.
FromTransposed(row4col, rows) ==
  [row_ind |-> rows, col_ind |-> [k \in 1..Len(rows) |-> row4col[rows[k]]]]

FromSolved(col4row, nr) ==
  [row_ind |-> [i \in 1..nr |-> i], col_ind |-> [i \in 1..nr |-> col4row[i]]]

AssignedRows(row4col, nr) ==
  Ascending({i \in 1..nr : row4col[i] # 0}, 1, nr)

\* Row i paired with column i, whatever the costs.
LinearSumAssignmentInOrder(cost, nr, nc) ==
  [row_ind |-> [k \in 1..Min(nr, nc) |-> k],
   col_ind |-> [k \in 1..Min(nr, nc) |-> k]]

\* Every row paired with its own cheapest column (the first of them),
\* whether or not another row has it.
LinearSumAssignmentPerRow(cost, nr, nc) ==
  IF nr = 0 \/ nc = 0 THEN [row_ind |-> <<>>, col_ind |-> <<>>]
  ELSE [row_ind |-> [i \in 1..nr |-> i],
        col_ind |-> [i \in 1..nr |->
           CHOOSE j \in 1..nc :
              /\ \A l \in 1..nc : cost[i][j] <= cost[i][l]
              /\ \A l \in 1..(j - 1) : cost[i][l] > cost[i][j]]]

\* The pairs of positions of a result whose rows have the same costs.
TiedPairs(cost, rows) ==
  {p \in (1..Len(rows)) \X (1..Len(rows)) :
      p[1] < p[2] /\ cost[rows[p[1]]] = cost[rows[p[2]]]}

\* A result with the columns of one tied pair of rows exchanged: as cheap a
\* matching, but another one.
Exchanged(lsa, pair) ==
  [row_ind |-> lsa.row_ind,
   col_ind |-> [k \in 1..Len(lsa.col_ind) |->
      IF k = pair[1] THEN lsa.col_ind[pair[2]]
      ELSE IF k = pair[2] THEN lsa.col_ind[pair[1]]
      ELSE lsa.col_ind[k]]]

ExchangedIfTied(cost, lsa) ==
  IF TiedPairs(cost, lsa.row_ind) = {} THEN lsa
  ELSE Exchanged(lsa, CHOOSE p \in TiedPairs(cost, lsa.row_ind) : TRUE)

\* The solver with a tie-break that is not a function of the matrix: from
\* the second call on, two rows of equal costs exchange their columns.
LinearSumAssignmentUnstable(cost, nr, nc) ==
  IF nr = 0 \/ nc = 0 THEN [row_ind |-> <<>>, col_ind |-> <<>>]
  ELSE IF nc < nr
  THEN FromTransposed(Solve(Transposed(cost, nr, nc), nc, nr).row4col,
         AssignedRows(Solve(Transposed(cost, nr, nc), nc, nr).row4col, nr))
  ELSE IF calls["optimize_schedule"] = 0
  THEN FromSolved(Solve(cost, nr, nc).col4row, nr)
  ELSE ExchangedIfTied(cost, FromSolved(Solve(cost, nr, nc).col4row, nr))

\* linear_sum_assignment(cost) for an nr x nc matrix of integers: the pair
\* (row_ind, col_ind), row_ind ascending.  A tall matrix is solved
\* transposed and the result turned back.
LinearSumAssignment(cost, nr, nc) ==
  IF nr = 0 \/ nc = 0 THEN [row_ind |-> <<>>, col_ind |-> <<>>]
  ELSE IF nc < nr
  THEN FromTransposed(Solve(Transposed(cost, nr, nc), nc, nr).row4col,
         AssignedRows(Solve(Transposed(cost, nr, nc), nc, nr).row4col, nr))
  ELSE FromSolved(Solve(cost, nr, nc).col4row, nr)

\* -------------------------------------------------------- optimize_schedule
\* cost_matrix[i, j] = 1 - priority_score, then += j * 0.1 * priority_score,
\* as a numerator over 10 * den; j is the code's 0-based column index.
CostEntryCountingFromOne(p, den, j) ==
  IF p.nan THEN NaN
  ELSE [nan |-> FALSE, num |-> 10 * (den - p.num) + (j + 1) * p.num]

\* The penalty taken as j * 0.2 * priority_score.
CostEntryDoublePenalty(p, den, j) ==
  IF p.nan THEN NaN
  ELSE [nan |-> FALSE, num |-> 10 * (den - p.num) + 2 * j * p.num]

\* cost = 1 - priority_score, without the penalty of the later slots.
CostEntryWithoutPenalty(p, den, j) ==
  IF p.nan THEN NaN
  ELSE [nan |-> FALSE, num |-> 10 * (den - p.num)]

CostEntry(p, den, j) ==
  IF p.nan THEN NaN
  ELSE [nan |-> FALSE, num |-> 10 * (den - p.num) + j * p.num]

CostMatrix(prio, den, n_vehicles, n_slots) ==
  [i \in 1..n_vehicles |-> [j \in 1..n_slots |-> CostEntry(prio[i], den, j - 1)]]

HasNaN(cm) ==
  \E i \in 1..Len(cm) : \E j \in 1..Len(cm[i]) : cm[i][j].nan

Numerators(cm) ==
  [i \in 1..Len(cm) |-> [j \in 1..Len(cm[i]) |-> cm[i][j].num]]

\* The rows with the k-th slot of the list as the time slot of the k-th row.
ScheduleRowsSlotByPosition(rows, cols, slots) ==
  [k \in 1..Len(rows) |->
     [vehicle |-> rows[k],
      time_slot |-> slots[k],
      priority_score |-> priority_score[rows[k]],
      maintenance_cluster |-> maintenance_cluster[rows[k]]]]

\* The rows with the vehicle looked up by the column index j instead of i.
ScheduleRowsByColumn(rows, cols, slots) ==
  [k \in 1..Len(rows) |->
     [vehicle |-> cols[k],
      time_slot |-> slots[cols[k]],
      priority_score |-> priority_score[rows[k]],
      maintenance_cluster |-> maintenance_cluster[rows[k]]]]

\* The rows appended for zip(row_ind, col_ind); vehicle_id ATV_i is kept as
\* i.  Every column index of the solver satisfies the test j < n_slots.
ScheduleRows(rows, cols, slots) ==
  [k \in 1..Len(rows) |->
     [vehicle |-> rows[k],
      time_slot |-> slots[cols[k]],
      priority_score |-> priority_score[rows[k]],
      maintenance_cluster |-> maintenance_cluster[rows[k]]]]

\* The columns of a matrix that offers no slot when the capacity is 0.
SlotColumnsWithinCapacity(slots, mechanics) ==
  Min(Len(slots), Len(slots) * mechanics)

\* n_slots = len(available_slots): mechanics_per_slot is not read.
SlotColumns(slots, mechanics) == Len(slots)

\* An exception leaves the caller without a return value.
OptimizeScheduleRaises(exc) ==
  /\ raised' = [op |-> "optimize_schedule", exc |-> exc]
  /\ UNCHANGED <<available_slots, mechanics_per_slot, cost_matrix, row_ind,
                 col_ind, schedule, returned>>

RECURSIVE WithoutAssigned(_, _, _)
\* The slot list with the entries at the assigned columns taken out.
WithoutAssigned(slots, cols, j) ==
  IF j > Len(slots) THEN <<>>
  ELSE (IF \E k \in 1..Len(cols) : cols[k] = j THEN <<>> ELSE <<slots[j]>>)
          \o WithoutAssigned(slots, cols, j + 1)

\* The return that takes the assigned slots out of the caller's list.
OptimizeScheduleReturnsConsumingSlots(slots, mechanics, cm, lsa) ==
  IF lsa.row_ind # <<>> /\ "maintenance_cluster" \notin columns
  THEN OptimizeScheduleRaises("KeyError")
  ELSE /\ available_slots' = WithoutAssigned(slots, lsa.col_ind, 1)
       /\ mechanics_per_slot' = mechanics
       /\ cost_matrix' = cm
       /\ row_ind' = lsa.row_ind
       /\ col_ind' = lsa.col_ind
       /\ schedule' = ScheduleRows(lsa.row_ind, lsa.col_ind, slots)
       /\ returned' = TRUE
       /\ UNCHANGED raised

OptimizeScheduleReturns(slots, mechanics, cm, lsa) ==
  IF lsa.row_ind # <<>> /\ "maintenance_cluster" \notin columns
  THEN OptimizeScheduleRaises("KeyError")
  ELSE /\ available_slots' = slots
       /\ mechanics_per_slot' = mechanics
       /\ cost_matrix' = cm
       /\ row_ind' = lsa.row_ind
       /\ col_ind' = lsa.col_ind
       /\ schedule' = ScheduleRows(lsa.row_ind, lsa.col_ind, slots)
       /\ returned' = TRUE
       /\ UNCHANGED raised

OptimizeScheduleSolves(slots, mechanics, cm) ==
  IF HasNaN(cm)
  THEN OptimizeScheduleRaises("ValueError")
  ELSE OptimizeScheduleReturns(slots, mechanics, cm,
         LinearSumAssignment(Numerators(cm), Len(vehicle_data),
                             SlotColumns(slots, mechanics)))

\* A run asks for one schedule (main, the dashboard); a further run asks for
\* it with the arguments of the first.
OptimizeSchedule(slots, mechanics) ==
  /\ raised = NoException
  /\ Called("optimize_schedule")
  /\ returned => slots = available_slots /\ mechanics = mechanics_per_slot
  /\ IF /\ Len(vehicle_data) > 0
        /\ SlotColumns(slots, mechanics) > 0
        /\ "priority_score" \notin columns
     THEN OptimizeScheduleRaises("KeyError")
     ELSE OptimizeScheduleSolves(slots, mechanics,
            CostMatrix(priority_score, priority_den, Len(vehicle_data),
                       SlotColumns(slots, mechanics)))
  /\ UNCHANGED <<vehicle_data, columns, priority_score, priority_den,
                 maintenance_cluster>>

\* ------------------------------------------- ConversationMemory (memory_manager)
\* A message is [role, content, context, timestamp]; the timestamp is the
\* number of messages stamped before it.  The memory is the record
\* [conversation, clock, storage].

\* The slice taken from the front of the list: the oldest messages stay.
TrimmedToOldest(conversation) ==
  IF Len(conversation) > max_history_length
  THEN SubSeq(conversation, 1, max_history_length)
  ELSE conversation

\* current_conversation[-max_history_length:] when the list is too long.
Trimmed(conversation) ==
  IF Len(conversation) > max_history_length
  THEN SubSeq(conversation, Len(conversation) - max_history_length + 1,
              Len(conversation))
  ELSE conversation

Message(role, content, context, timestamp) ==
  [role |-> role, content |-> content, context |-> context,
   timestamp |-> timestamp]

\* add_message on a memory: append, trim, then _save_conversation, which
\* writes the file unless the disk refuses (disk_ok = FALSE: open or write
\* raises and the exception leaves add_message after the list was changed).
AddMessageTo(memory, role, content, context, disk_ok) ==
  [conversation |->
     Trimmed(Append(memory.conversation,
                    Message(role, content, context, memory.clock))),
   clock |-> memory.clock + 1,
   storage |->
     IF disk_ok
     THEN Trimmed(Append(memory.conversation,
                         Message(role, content, context, memory.clock)))
     ELSE memory.storage]

Memory ==
  [conversation |-> current_conversation, clock |-> clock, storage |-> storage]

SetMemory(memory) ==
  /\ current_conversation' = memory.conversation
  /\ clock' = memory.clock
  /\ storage' = memory.storage

Roles == {"user", "assistant"}

AddMessage(role, content, disk_ok) ==
  /\ clock < MaxMessages
  /\ SetMemory(AddMessageTo(Memory, role, content, "{}", disk_ok))
  /\ UNCHANGED response
  /\ UNCHANGED optimizer_vars

ClearConversation ==
  /\ current_conversation' = <<>>
  /\ UNCHANGED <<clock, storage, response>>
  /\ UNCHANGED optimizer_vars

\* --------------------------------------------- MaintenanceAgent.get_response
\* The response of the outer except clause.
Apology ==
  "I apologize, but I'm having trouble generating a response. Please try again."

\* The query a user sends, and the atv_model ("None": none given).
Queries == {"query"}

Models == {"None"}

\* The memory with the user's message saved before any text is generated.
BeforeGenerationRecordingQuery(memory, query, atv_model) ==
  AddMessageTo(memory, "user", query, atv_model, TRUE)

\* The memory when the response text is being generated: _generate_context
\* and the chain only read it.
BeforeGeneration(memory, query, atv_model) == memory

\* The text of the chain, or of the direct model call when the chain raised.
ResponseText(chain_ok) ==
  IF chain_ok THEN "chain answer" ELSE "fallback answer"

\* What get_response returns: the text and the context it was generated
\* from, or the apology and the text of the exception.
Returned(text, context) == [response |-> text, context |-> context]

\* get_response: kb_ok tells whether building the context went through,
\* chain_ok and fallback_ok whether the chain and the direct call returned
\* a text, disk_ok1 and disk_ok2 whether the two add_message calls could
\* write their file.  Every exception ends in the outer except clause,
\* which returns the apology.
GetResponse(query, atv_model, kb_ok, chain_ok, fallback_ok, disk_ok1, disk_ok2) ==
  /\ clock + 2 <= MaxMessages
  /\ IF ~kb_ok
     THEN /\ SetMemory(BeforeGeneration(Memory, query, atv_model))
          /\ response' = Returned(Apology, "knowledge base error")
     ELSE IF ~chain_ok /\ ~fallback_ok
     THEN /\ SetMemory(BeforeGeneration(Memory, query, atv_model))
          /\ response' = Returned(Apology, "generation error")
     ELSE IF ~disk_ok1
     THEN /\ SetMemory(AddMessageTo(BeforeGeneration(Memory, query, atv_model),
                                    "user", query, atv_model, FALSE))
          /\ response' = Returned(Apology, "save error")
     ELSE /\ SetMemory(
               AddMessageTo(
                 AddMessageTo(BeforeGeneration(Memory, query, atv_model),
                              "user", query, atv_model, TRUE),
                 "assistant", ResponseText(chain_ok), "context", disk_ok2))
          /\ response' = IF disk_ok2
                         THEN Returned(ResponseText(chain_ok), "context")
                         ELSE Returned(Apology, "save error")
  /\ UNCHANGED optimizer_vars

MemoryInit ==
  /\ current_conversation = <<>>
  /\ clock = 0
  /\ storage = <<>>
  /\ response = Returned("none", "none")

\* ------------------------------------------------------------ specification
InitWith(fleets, runs) ==
  /\ vehicle_data \in fleets
  /\ calls = [op \in Operations |-> 0]
  /\ passes = runs
  /\ columns = {}
  /\ priority_score = <<>>
  /\ priority_den = 1
  /\ maintenance_cluster = <<>>
  /\ available_slots = <<>>
  /\ mechanics_per_slot = 0
  /\ cost_matrix = <<>>
  /\ row_ind = <<>>
  /\ col_ind = <<>>
  /\ schedule = <<>>
  /\ returned = FALSE
  /\ raised = NoException
  /\ MemoryInit

Init == InitWith(SmallFleets, 1)

\* The slot lists a caller passes: from none to one more than the vehicles.
Next ==
  \/ CalculatePriorityScore
  \/ ClusterMaintenanceNeeds
  \/ \E n \in 0..(Len(vehicle_data) + 1), m \in 0..MaxMechanics :
       OptimizeSchedule(MainSlots(n), m)

Spec == Init /\ [][Next]_vars

\* The same operations on the sample fleets, which reach the sizes the
\* exhaustive collections do not.
InitFleet == InitWith(SampleFleets, 1)

SpecFleet == InitFleet /\ [][Next]_vars

\* The same operations on every collection of fewer than NClusters vehicles.
InitFew == InitWith(FewVehicles, 1)

SpecFew == InitFew /\ [][Next]_vars

\* The pipeline run up to MaxPasses times on the same vehicle data.
InitAgain == InitWith(RerunFleets, MaxPasses)

SpecAgain == InitAgain /\ [][Next]_vars

\* ------------------------------------------------------------------ claims
n_vehicles == Len(vehicle_data)
n_slots == Len(available_slots)

\* The columns of the cost matrix are the units the solver matches vehicles
\* to: one per entry of available_slots.
SlotInstances == 1..n_slots

\* Position (0-based) in the caller's slot order of a schedule row's slot.
SlotIndexOf(row) ==
  CHOOSE k \in 0..(n_slots - 1) : available_slots[k + 1] = row.time_slot

ScheduledVehicles == {schedule[k].vehicle : k \in 1..Len(schedule)}

\* Sum of the cost numerators of the returned pairs.
RECURSIVE TotalCost(_, _, _, _)
TotalCost(cm, rows, cols, k) ==
  IF k > Len(rows) THEN 0
  ELSE cm[rows[k]][cols[k]].num + TotalCost(cm, rows, cols, k + 1)

\* Brute force: the least total over all ways to give rows i..nr of C
\* different columns out of free.
RECURSIVE BruteMin(_, _, _, _)
BruteMin(C, i, nr, free) ==
  IF i > nr THEN 0
  ELSE LET cand == {C[i][j] + BruteMin(C, i + 1, nr, free \ {j}) : j \in free}
       IN CHOOSE c \in cand : \A d \in cand : c <= d

\* The least total cost of a one-to-one matching of size min(nr, nc).
MinMatchingCost(C, nr, nc) ==
  IF nr = 0 \/ nc = 0 THEN 0
  ELSE IF nr <= nc THEN BruteMin(C, 1, nr, 1..nc)
  ELSE BruteMin(Transposed(C, nr, nc), 1, nc, 1..nr)

\* C1: the total cost of the pairs optimize_schedule returns equals the least
\* total cost of any one-to-one matching of min(|vehicles|, |slot instances|)
\* pairs on the cost matrix it built (compared by brute force for up to
\* MaxSample vehicles and MaxSample slot instances).
C1_OptimalAssignment ==
  (returned /\ n_vehicles <= MaxSample /\ n_slots <= MaxSample) =>
     /\ Len(row_ind) = Min(n_vehicles, n_slots)
     /\ TotalCost(cost_matrix, row_ind, col_ind, 1)
          = MinMatchingCost(Numerators(cost_matrix), n_vehicles, n_slots)

C1_Witness ==
  /\ returned
  /\ n_vehicles = MaxSample /\ n_slots = MaxSample - 1
  /\ \E i, j \in 1..n_vehicles : priority_score[i].num # priority_score[j].num

\* C2: for a positive mechanics_per_slot, no time slot is the time_slot of
\* more schedule rows than mechanics_per_slot.
C2_CapacityRespected ==
  (returned /\ mechanics_per_slot >= 1) =>
     \A k \in 1..n_slots :
        Cardinality({r \in 1..Len(schedule) :
                       schedule[r].time_slot = available_slots[k]})
          <= mechanics_per_slot

C2_Witness ==
  /\ returned /\ mechanics_per_slot = 1
  /\ n_slots >= 2 /\ Len(schedule) = n_slots /\ n_vehicles > n_slots

\* C3: every time slot of capacity c (mechanics_per_slot) is expanded into c
\* slot instances, so the cost matrix has |vehicles| rows and
\* sum-of-capacities columns.
C3_SlotsExpandedByCapacity ==
  (returned /\ n_vehicles > 0 /\ mechanics_per_slot >= 1) =>
     /\ Len(cost_matrix) = n_vehicles
     /\ \A i \in 1..n_vehicles :
          Len(cost_matrix[i]) = n_slots * mechanics_per_slot

\* C4: in a returned schedule no vehicle is in two rows and no slot instance
\* (cost-matrix column) is in two pairs.
C4_OneToOne ==
  returned =>
     /\ Len(row_ind) = Len(schedule) /\ Len(col_ind) = Len(schedule)
     /\ \A k, l \in 1..Len(schedule) :
          k # l => /\ schedule[k].vehicle # schedule[l].vehicle
                   /\ col_ind[k] # col_ind[l]
     /\ \A k \in 1..Len(schedule) :
          /\ schedule[k].vehicle = row_ind[k]
          /\ row_ind[k] \in 1..n_vehicles
          /\ col_ind[k] \in SlotInstances

C4_Witness ==
  /\ returned /\ Len(schedule) >= 3
  /\ \E k \in 1..Len(schedule) : col_ind[k] # k

\* C5: the schedule has exactly min(|vehicles|, |slot instances|) rows, a
\* time slot of capacity mechanics_per_slot counting for that many instances:
\* with more vehicles than instances the rest are absent, with at least as
\* many instances as vehicles every vehicle has a row, and on scored and
\* clustered data optimize_schedule raises nothing, whatever the two sizes.
C5_RectangularSizes ==
  /\ (returned /\ mechanics_per_slot >= 1) =>
       /\ Len(schedule) = Min(n_vehicles, n_slots * mechanics_per_slot)
       /\ n_vehicles <= n_slots * mechanics_per_slot
            => ScheduledVehicles = 1..n_vehicles
  /\ raised.op = "optimize_schedule" => "maintenance_cluster" \notin columns

UnscheduledVehicles == (1..n_vehicles) \ ScheduledVehicles

\* No vehicle left out has a strictly higher priority_score than one that
\* has a row.
LowestPriorityLeftOut ==
  \A a \in UnscheduledVehicles : \A b \in ScheduledVehicles :
     ~(priority_score[a].num > priority_score[b].num)

\* C6: whenever vehicles outnumber slot instances, no vehicle left
\* unscheduled has a strictly higher priority_score than a scheduled one; 5
\* vehicles and 2 slots of capacity 1 give 2 rows.
C6_LowestPriorityUnscheduled ==
  (returned /\ mechanics_per_slot >= 1
     /\ n_vehicles > n_slots * mechanics_per_slot) =>
     /\ LowestPriorityLeftOut
     /\ (n_vehicles = 5 /\ n_slots = 2 /\ mechanics_per_slot = 1)
          => Len(schedule) = 2

\* C7: of two scheduled vehicles the one with the strictly higher
\* priority_score has a slot that is not later in the slot order; the
\* vehicles scored 0.9, 0.5 and 0.1 get the slots at indices 0, 1 and 2 of
\* three slots.
C7_HigherPriorityEarlier ==
  returned =>
     /\ \A k, l \in 1..Len(schedule) :
          schedule[k].priority_score.num > schedule[l].priority_score.num
            => SlotIndexOf(schedule[k]) <= SlotIndexOf(schedule[l])
     /\ (vehicle_data = ScenarioFleet /\ n_slots = 3) =>
          /\ \A i \in 1..3 :
               10 * priority_score[i].num = (13 - 4 * i) * priority_den
          /\ \A k \in 1..3 :
               schedule[k].vehicle = k /\ SlotIndexOf(schedule[k]) = k - 1

C7_Witness ==
  /\ returned /\ vehicle_data = ScenarioFleet /\ n_slots = 3
  /\ Len(schedule) = 3

\* Index (0-based) in the caller's slot order of the time slot that slot
\* instance j belongs to.
SlotOrderIndex(j) ==
  CHOOSE k \in 0..(n_slots - 1) : available_slots[k + 1] = available_slots[j]

\* C8: the cost-matrix entry of vehicle i and slot instance j is
\* (1 - priority_score_i) + k_j * 0.1 * priority_score_i, k_j the index of
\* j's time slot in the caller's slot order (as numerators over
\* 10 * priority_den).
C8_CostFormula ==
  returned =>
     \A i \in 1..n_vehicles : \A j \in SlotInstances :
        /\ ~cost_matrix[i][j].nan
        /\ cost_matrix[i][j].num
             = 10 * (priority_den - priority_score[i].num)
               + SlotOrderIndex(j) * priority_score[i].num

C8_Witness ==
  /\ returned /\ n_vehicles >= 3 /\ n_slots >= 3
  /\ \E i \in 1..n_vehicles :
       /\ priority_score[i].num > 0
       /\ cost_matrix[i][3].num > cost_matrix[i][1].num

\* Series.min() of a column of non-negative integers.
RECURSIVE SeqMin(_)
SeqMin(s) ==
  IF s = <<>> THEN 0
  ELSE IF Len(s) = 1 THEN s[1]
  ELSE LET m == SeqMin(Tail(s)) IN IF Head(s) <= m THEN Head(s) ELSE m

\* (value - min) / (max - min) of a column that has two different values.
MinMaxNorm(value, col) ==
  [num |-> value - SeqMin(col), den |-> SeqMax(col) - SeqMin(col)]

FaultsColumn == Column(vehicle_data, "total_faults")
AgeColumn == Column(vehicle_data, "days_since_last_maintenance")

\* C9: after calculate_priority_score every vehicle's priority_score is
\* 0.4 * norm(total_faults) + 0.3 * norm(days_since_last_maintenance)
\* + 0.3 * critical_system_faults with norm(value) = (value - min) /
\* (max - min) over the collection (stated where both columns have two
\* different values, and compared as fractions).
C9_MinMaxPriorityFormula ==
  ("priority_score" \in columns
     /\ ~IsConstant(FaultsColumn) /\ ~IsConstant(AgeColumn)) =>
     \A i \in 1..Len(vehicle_data) :
        LET nf == MinMaxNorm(FaultsColumn[i], FaultsColumn)
            na == MinMaxNorm(AgeColumn[i], AgeColumn)
        IN /\ ~priority_score[i].nan
           /\ priority_score[i].num * (10 * nf.den * na.den)
                = priority_den
                  * (4 * nf.num * na.den + 3 * na.num * nf.den
                     + 3 * vehicle_data[i].critical_system_faults
                         * nf.den * na.den)

\* C10: in a feature column (total_faults, days_since_last_maintenance) that
\* has two different values, the value calculate_priority_score normalises to
\* for a vehicle holding the column minimum is exactly 0 and for a vehicle
\* holding the column maximum exactly 1.
C10_NormOfMinIsZeroOfMaxIsOne ==
  "priority_score" \in columns =>
     \A col \in {FaultsColumn, AgeColumn} :
        ~IsConstant(col) =>
           \A i \in 1..Len(col) :
              /\ col[i] = SeqMin(col) => MaxNorm(col[i], col).num = 0
              /\ col[i] = SeqMax(col) =>
                    /\ ~MaxNorm(col[i], col).nan
                    /\ MaxNorm(col[i], col).num = MaxNorm(col[i], col).den

\* The value the degenerate-column rule gives: 0 for every vehicle of a
\* constant column, and the column's normalised value otherwise.
DegenerateRuleNorm(value, col) ==
  IF IsConstant(col) THEN [nan |-> FALSE, num |-> 0, den |-> 1]
  ELSE MaxNorm(value, col)

\* C11: when total_faults or days_since_last_maintenance is the same for
\* every vehicle (the all-zero column included), no priority_score is
\* undefined and that feature contributes 0 to every priority_score: the
\* score is the weighted sum of the other terms alone (compared as
\* fractions).
C11_DegenerateColumnContributesZero ==
  ("priority_score" \in columns /\ n_vehicles > 0
     /\ (IsConstant(FaultsColumn) \/ IsConstant(AgeColumn))) =>
     \A i \in 1..n_vehicles :
        LET nf == DegenerateRuleNorm(FaultsColumn[i], FaultsColumn)
            na == DegenerateRuleNorm(AgeColumn[i], AgeColumn)
        IN /\ ~priority_score[i].nan
           /\ priority_score[i].num * ScoreDen(nf.den, na.den)
                = priority_den
                  * WeightedScore(nf, na,
                      vehicle_data[i].critical_system_faults).num

\* Whether one of the columns cluster_maintenance_needs standardises holds
\* the same value for every vehicle.
SomeFeatureIsConstant ==
  \/ IsConstant(FaultsColumn)
  \/ IsConstant(AgeColumn)
  \/ IsConstant(Column(vehicle_data, "critical_system_faults"))
  \/ IsConstant(priority_score)

\* C12: when a clustering feature column has zero standard deviation (the
\* same defined value for every vehicle) in a collection of at least
\* NClusters scored vehicles, cluster_maintenance_needs does not fail: it
\* sets a cluster label for every vehicle.
C12_ZeroStdClusteringProceeds ==
  ("priority_score" \in columns /\ n_vehicles >= NClusters
     /\ (\A i \in 1..n_vehicles : ~priority_score[i].nan)
     /\ SomeFeatureIsConstant) =>
     raised.op # "cluster_maintenance_needs"

Attributes ==
  {"total_faults", "days_since_last_maintenance", "critical_system_faults"}

\* The collection with attribute name of vehicle i raised by the amount by.
Raised(data, i, name, by) == [data EXCEPT ![i][name] = @ + by]

\* p / pden < q / qden for two defined scores; no comparison with a NaN
\* holds.
LowerThan(p, pden, q, qden) ==
  ~p.nan /\ ~q.nan /\ p.num * qden < q.num * pden

\* C13: within a scored collection, the priority_score that
\* calculate_priority_score gives a vehicle after one of its three attributes
\* is raised (by 1..MaxRaise, everything else unchanged) is not lower than
\* the score it has.
C13_PriorityMonotone ==
  "priority_score" \in columns =>
     \A i \in 1..n_vehicles : \A name \in Attributes : \A by \in 1..MaxRaise :
        ~LowerThan(PriorityColumn(Raised(vehicle_data, i, name, by))[i],
                   PriorityDen(Raised(vehicle_data, i, name, by)),
                   priority_score[i], priority_den)

\* A scored vehicle below the column maximum of total_faults whose raise by
\* MaxRaise passes that maximum, so that the column maximum changes too.
C13_Witness ==
  /\ "priority_score" \in columns
  /\ \E i \in 1..n_vehicles :
       /\ ~priority_score[i].nan
       /\ FaultsColumn[i] < SeqMax(FaultsColumn)
       /\ FaultsColumn[i] + MaxRaise > SeqMax(FaultsColumn)
       /\ LowerThan(priority_score[i], priority_den,
            PriorityColumn(Raised(vehicle_data, i, "total_faults", MaxRaise))[i],
            PriorityDen(Raised(vehicle_data, i, "total_faults", MaxRaise)))


\* C14: an empty vehicle collection, an empty slot list or a non-positive
\* slot capacity is reported as an error and no schedule, not even an empty
\* one, is returned: optimize_schedule returns only when it was given at
\* least one vehicle, at least one slot and a capacity of at least one.
C14_InvalidInputReturnsNoSchedule ==
  returned =>
     /\ n_vehicles > 0
     /\ n_slots > 0
     /\ mechanics_per_slot >= 1


\* C15: clustering fewer than k = 3 vehicles is reported as an error: every
\* call of cluster_maintenance_needs on such a collection raises, assigns no
\* cluster id and leaves the data without a maintenance_cluster column.
C15_TooFewVehiclesIsError ==
  [][(ClusterMaintenanceNeeds /\ n_vehicles < NClusters) =>
        /\ raised'.op = "cluster_maintenance_needs"
        /\ raised'.exc \in {"KeyError", "ValueError"}
        /\ maintenance_cluster' = <<>>
        /\ "maintenance_cluster" \notin columns']_vars

\* Two scored vehicles whose features all standardise: only the sample count
\* stands between them and a fit, and the call raised.
C15_Witness ==
  /\ n_vehicles = NClusters - 1
  /\ "priority_score" \in columns
  /\ ~FeaturesHaveNaN
  /\ ~PriorityStdMayBeZero
  /\ raised = [op |-> "cluster_maintenance_needs", exc |-> "ValueError"]
  /\ "maintenance_cluster" \notin columns


\* C16: after cluster_maintenance_needs on a scored collection of at least
\* 3 vehicles, every vehicle has exactly one cluster id and that id is one of
\* 0, 1, 2: the call does not raise, and it leaves a maintenance_cluster
\* column with one id of 0..k-1 per vehicle.
C16_EveryVehicleGetsOneClusterId ==
  [][(ClusterMaintenanceNeeds /\ "priority_score" \in columns
        /\ n_vehicles >= NClusters) =>
        /\ raised' = NoException
        /\ "maintenance_cluster" \in columns'
        /\ Len(maintenance_cluster') = n_vehicles
        /\ \A i \in 1..n_vehicles :
              maintenance_cluster'[i] \in 0..(NClusters - 1)]_vars


PipelineRan ==
  returned /\ {"priority_score", "maintenance_cluster"} \subseteq columns

C19_ScheduleRowsCopyAssignment ==
  returned =>
     /\ Len(schedule) = Len(row_ind)
     /\ Len(row_ind) = Len(col_ind)
     /\ \A k \in 1..Len(schedule) :
           /\ schedule[k].vehicle = row_ind[k]
           /\ schedule[k].priority_score = priority_score[row_ind[k]]
           /\ schedule[k].maintenance_cluster = maintenance_cluster[row_ind[k]]
           /\ schedule[k].time_slot = available_slots[col_ind[k]]

\* A schedule of several rows whose k-th row is not for the k-th slot, and
\* whose vehicles differ in score and in cluster.
C19_Witness ==
  /\ returned
  /\ Len(schedule) >= 2
  /\ \E k \in 1..Len(schedule) : col_ind[k] # k
  /\ \E k, l \in 1..Len(schedule) :
        /\ schedule[k].priority_score # schedule[l].priority_score
        /\ schedule[k].maintenance_cluster # schedule[l].maintenance_cluster


\* C23: the stages depend on one another through the data: clustering
\* produces cluster ids only for scored vehicles, and optimize_schedule
\* returns a schedule for a collection of vehicles only when the collection
\* has been scored and clustered before.
C23_StagesInOrder ==
  /\ "maintenance_cluster" \in columns => "priority_score" \in columns
  /\ (returned /\ n_vehicles > 0) =>
        {"priority_score", "maintenance_cluster"} \subseteq columns


\* C24: the later stages write nothing but their own result.  No call
\* changes a raw attribute; priority_score changes only in a call of
\* calculate_priority_score and maintenance_cluster only in a call of
\* cluster_maintenance_needs; no derived column is ever removed; and after
\* optimize_schedule has returned, the slot list is the list the caller
\* passed, entry for entry.
C24_LaterStagesFrame ==
  [][/\ vehicle_data' = vehicle_data
     /\ columns \subseteq columns'
     /\ calls'["calculate_priority_score"] = calls["calculate_priority_score"] =>
           priority_score' = priority_score /\ priority_den' = priority_den
     /\ calls'["cluster_maintenance_needs"] = calls["cluster_maintenance_needs"] =>
           maintenance_cluster' = maintenance_cluster
     /\ (calls'["optimize_schedule"] # calls["optimize_schedule"] /\ returned') =>
           \E n \in 0..(n_vehicles + 1) : available_slots' = MainSlots(n)]_vars

\* The three stages have run once each on a fleet, in order, and the
\* schedule uses only part of the slot list.
C24_Witness ==
  /\ \A op \in Operations : calls[op] = 1
  /\ returned
  /\ {"priority_score", "maintenance_cluster"} \subseteq columns
  /\ Len(schedule) >= 1
  /\ Len(schedule) < Len(available_slots)


\* C25: every vehicle's priority_score is a number between
\* 0.3 * critical_system_faults and 0.7 + 0.3 * critical_system_faults, and
\* so never negative (it is above 1 for a vehicle with 2 critical faults that
\* holds the maximum of both other attributes).
C25_PriorityScoreRange ==
  "priority_score" \in columns =>
     \A i \in 1..n_vehicles :
        LET c == vehicle_data[i].critical_system_faults
        IN /\ ~priority_score[i].nan
           /\ 3 * c * priority_den <= 10 * priority_score[i].num
           /\ 10 * priority_score[i].num <= (7 + 3 * c) * priority_den
           /\ priority_score[i].num >= 0


ScheduleOf(lsa, slots) == ScheduleRows(lsa.row_ind, lsa.col_ind, slots)

\* What optimize_schedule returns for the scored and clustered vehicle data
\* as it is, a slot list and a capacity.
ScheduleFor(slots, mechanics) ==
  ScheduleOf(
    LinearSumAssignment(
      Numerators(CostMatrix(priority_score, priority_den, n_vehicles,
                            SlotColumns(slots, mechanics))),
      n_vehicles, SlotColumns(slots, mechanics)),
    slots)

\* C27: the schedule does not depend on mechanics_per_slot: the schedule
\* returned for scored and clustered vehicles is the one optimize_schedule
\* returns for the same vehicle data and slot list with any other capacity
\* (and is empty, whatever the capacity, when a stage has not run), and it
\* gives each entry of available_slots to one vehicle at most.
C27_MechanicsPerSlotIgnored ==
  returned =>
     /\ IF PipelineRan
        THEN \A m \in 0..MaxMechanics :
                ScheduleFor(available_slots, m) = schedule
        ELSE schedule = <<>>
     /\ \A k, l \in 1..Len(schedule) :
           schedule[k].time_slot = schedule[l].time_slot => k = l

\* A call with capacity 2 and fewer slots than vehicles: the slots are all
\* taken, one vehicle each, and vehicles are left over.
C27_Witness ==
  /\ returned
  /\ mechanics_per_slot = 2
  /\ n_slots >= 2
  /\ n_vehicles > n_slots
  /\ Len(schedule) = n_slots


NextMemory ==
  \/ \E role \in Roles, disk_ok \in BOOLEAN : AddMessage(role, "text", disk_ok)
  \/ ClearConversation

InitMemory == InitWith({<<>>}, 1)

SpecMemory == InitMemory /\ [][NextMemory]_vars

\* C29: the conversation is bounded and ordered: it never holds more than
\* max_history_length messages, and it consists of the messages stamped
\* last, in the order they were added (stamps count from 0, so message k of
\* n carries the stamp of the k-th of the last n messages added).
C29_BoundedOrderedHistory ==
  /\ Len(current_conversation) <= max_history_length
  /\ \A k \in 1..Len(current_conversation) :
        current_conversation[k].timestamp
           = clock - Len(current_conversation) + k - 1

\* More messages were added than the memory keeps: the oldest are gone.
C29_Witness ==
  /\ Len(current_conversation) = max_history_length
  /\ current_conversation[1].timestamp > 0
  /\ clock > max_history_length

\* ------------------------------------------------------------- agent runs
\* get_response and clear_conversation called in any order.
NextAgent ==
  \/ \E query \in Queries, atv_model \in Models,
        kb_ok, chain_ok, fallback_ok, disk_ok1, disk_ok2 \in BOOLEAN :
        GetResponse(query, atv_model, kb_ok, chain_ok, fallback_ok,
                    disk_ok1, disk_ok2)
  \/ ClearConversation

SpecAgent == InitMemory /\ [][NextAgent]_vars

\* The conversation after the call is the old one followed by the two
\* messages, cut to the newest entries.
EndsWith(after, before, user, assistant) ==
  /\ Len(after) >= 2
  /\ after[Len(after) - 1] = user
  /\ after[Len(after)] = assistant
  /\ \A k \in 1..(Len(after) - 2) :
        after[k] = before[Len(before) - (Len(after) - 2) + k]

\* C30: get_response records a query only after a response text has been
\* obtained.  In every step of get_response: if the memory changed, a text
\* had been generated; if the chain and the fallback both failed, the
\* conversation, the clock and the saved file are as before and the apology
\* is returned; if the call succeeded, the conversation ends with the user's
\* message followed by the assistant's message holding the returned text.
C30_RecordsOnlyAfterResponse ==
  [][~ClearConversation =>
       /\ (current_conversation' # current_conversation \/ clock' # clock
              \/ storage' # storage) =>
             response'.context \in {"context", "save error"}
       /\ response'.context = "generation error" =>
             /\ current_conversation' = current_conversation
             /\ clock' = clock
             /\ storage' = storage
             /\ response'.response = Apology
       /\ response'.context = "context" =>
             \E query \in Queries, atv_model \in Models :
               EndsWith(current_conversation', current_conversation,
                        Message("user", query, atv_model, clock),
                        Message("assistant", response'.response, "context",
                                clock + 1))]_vars

\* A call in which the chain and the fallback failed came after one that
\* succeeded: the apology was returned and the memory holds the two
\* messages of the first call.
C30_Witness ==
  /\ response = Returned(Apology, "generation error")
  /\ clock = 2
  /\ Len(current_conversation) = 2
  /\ current_conversation[1].role = "user"
  /\ current_conversation[2].role = "assistant"
  /\ storage = current_conversation

=============================================================================
